---- MODULE Spec2Model ----
(***************************************************************************)
(* image2ascii (src/src/main.rs): the rendering pipeline.                  *)
(*                                                                         *)
(*   resize_img    fits a bitmap to the terminal's character grid          *)
(*   print_img     renders one bitmap as glyphs on stdout                  *)
(*   EventManager  an ordered list of (test, callback) closures            *)
(*   print_stream  the playback loop: print_img, events.run, sleep         *)
(*                                                                         *)
(* Specifications:                                                         *)
(*   Spec        print_stream over any frames and options, on a terminal   *)
(*               that keeps its geometry and a sink that may fail          *)
(*   SpecWatch   print_stream while the terminal is resized, attached and  *)
(*               detached at any moment                                    *)
(*   SpecResize  resize_img as a function of bitmap size and geometry      *)
(*   SpecPixel   the per-pixel glyph index of print_img                    *)
(*   SpecEM      EventManager::append / EventManager::run on any list     *)
(***************************************************************************)
EXTENDS Integers, Sequences, FiniteSets, TLC

(***************************************************************************)
(* Bounds of the model.                                                    *)
(***************************************************************************)
\* longest finite frame sequence handed to print_stream
MaxFrames == 2
\* frames pulled from a sequence before the model stops pulling (frames.cycle() never ends)
MaxPulls == 2
\* terminal geometry changes by the environment during one playback (SpecWatch)
MaxResizes == 1
\* largest bitmap side in SpecResize
MaxDim == 6
\* largest terminal column count in SpecResize
MaxCols == 13
\* largest terminal row count in SpecResize
MaxRows == 8
\* most entries registered with an EventManager in SpecEM
MaxEvents == 3

(***************************************************************************)
(* Program constants.                                                      *)
(***************************************************************************)
HEAT_MAP_LENGTH == 16

TERMINAL_TOO_SMALL_ERR == "I don't like zero sized terminals"

\* Text is a sequence of characters, each its Unicode code point.
Thrice(c) == << c, c, c >>

HEAT_MAP ==
  << Thrice(32),     \* "   "
     Thrice(46),     \* "..."
     Thrice(180),    \* "´´´"
     Thrice(58),     \* ":::"
     Thrice(126),    \* "~~~"
     Thrice(43),     \* "+++"
     Thrice(105),    \* "iii"
     Thrice(120),    \* "xxx"
     Thrice(33),     \* "!!!"
     Thrice(73),     \* "III"
     Thrice(35),     \* "###"
     Thrice(36),     \* "$$$"
     Thrice(88),     \* "XXX"
     Thrice(9604),   \* "▄▄▄" (U+2584)
     Thrice(9632),   \* "■■■" (U+25A0)
     Thrice(9608) >> \* "███" (U+2588)

\* the glyph of block-character mode: "███"
BlockGlyph == Thrice(9608)

\* "\n"
Newline == << 10 >>

\* no text
NoText == <<>>

\* std::io::Error, as anyhow carries it out of `?`
IOError == "IOError"

\* terminal::size() failing: no terminal is attached
NoTerminal == <<>>

(***************************************************************************)
(* u32 arithmetic.  A value v < 0 stands for the u32 2^32 + v, the result  *)
(* of a wrapped subtraction; every other value of the model is far below   *)
(* 2^32 and is itself.                                                     *)
(***************************************************************************)
\* the marker of a panic among the outcomes of an operation
Panic == "panic"

\* a - b on u32, the outcomes as <<difference>> or <<>> (a panic): with
\* overflow checks (debug) an underflow panics, without (release) it wraps
U32Sub(a, b) ==
  IF a >= b THEN { <<a - b>> } ELSE { <<>>, <<a - b>> }

\* u32::checked_div: None (<<>>) on a zero divisor, else Some(<<quotient>>).
\* A wrapped divisor 2^32 + d exceeds every dividend of the model.
checked_div(n, d) ==
  IF d = 0 THEN <<>>
  ELSE IF d < 0 THEN <<0>>
  ELSE <<n \div d>>

(***************************************************************************)
(* Bitmaps: [w, h, px], px the RGB triples in row-major order.             *)
(***************************************************************************)
Uniform(w, h, p) == [w |-> w, h |-> h, px |-> [i \in 1..(w * h) |-> p]]

\* f64::round of n/d for n >= 0, d > 0
RoundDiv(n, d) == (2 * n + d) \div (2 * d)

Max(a, b) == IF a >= b THEN a ELSE b

\* DynamicImage::resize(nwidth, nheight, _): the size of the result, the
\* largest of the source's aspect ratio that fits in nwidth x nheight, each
\* side at least 1
ResizeDimensions(w, h, nwidth, nheight) ==
  IF nwidth * h <= nheight * w
    THEN << Max(nwidth, 1), Max(RoundDiv(h * nwidth, w), 1) >>
    ELSE << Max(RoundDiv(w * nheight, h), 1), Max(nheight, 1) >>

\* DynamicImage::resize(nwidth, nheight, FilterType::Nearest): each pixel of
\* the result is the source pixel under its centre
ResizeNearest(img, nwidth, nheight) ==
  LET d  == ResizeDimensions(img.w, img.h, nwidth, nheight)
      nw == d[1]
      nh == d[2]
      src(i) == LET x == (i - 1) % nw
                    y == (i - 1) \div nw
                    sx == ((2 * x + 1) * img.w) \div (2 * nw)
                    sy == ((2 * y + 1) * img.h) \div (2 * nh)
                IN  img.px[sy * img.w + sx + 1]
  IN  [w |-> nw, h |-> nh, px |-> [i \in 1..(nw * nh) |-> src(i)]]

\* an outcome of resize_img
Failed(e) == [kind |-> "err", err |-> e, target |-> <<>>, img |-> <<>>]
Panicked == [kind |-> Panic, err |-> "", target |-> <<>>, img |-> <<>>]
Resized(t, i) == [kind |-> "ok", err |-> "", target |-> t, img |-> i]

\* the columns of the canvas: each pixel takes three character columns
canvas_columns(size) == size[1] \div 3

\* the rows of the canvas: three rows are kept free
canvas_rows(size) == U32Sub(size[2], 3)

\* which side of the bitmap the ratios wr and hr are taken of
ratio_side(img_dimensions) == img_dimensions[2]

\* resize_img from the canvas on
resize_to_canvas(img, canvas_dimensions) ==
  LET img_dimensions == <<img.w, img.h>>
      wr == checked_div(ratio_side(img_dimensions), canvas_dimensions[1])
      hr == checked_div(ratio_side(img_dimensions), canvas_dimensions[2])
  IN  IF wr = <<>> \/ hr = <<>> THEN Failed(TERMINAL_TOO_SMALL_ERR)
      ELSE LET target ==
                 IF hr[1] > wr[1]
                   THEN << (canvas_dimensions[2] * img_dimensions[1]) \div img_dimensions[2],
                           canvas_dimensions[2] >>
                   ELSE << canvas_dimensions[1],
                           (canvas_dimensions[1] * img_dimensions[2]) \div img_dimensions[1] >>
           IN  Resized(target, ResizeNearest(img, target[1], target[2]))

\* resize_img: the outcomes for a bitmap and what terminal::size() returns
resize_img(img, size) ==
  IF size = NoTerminal THEN {Failed(IOError)}
  ELSE { IF rows = <<>> THEN Panicked
         ELSE resize_to_canvas(img, <<canvas_columns(size), rows[1]>>)
         : rows \in canvas_rows(size) }

(***************************************************************************)
(* print_img: the glyph of a pixel.                                        *)
(***************************************************************************)
\* the divisor of the luminance: 256 / HEAT_MAP_LENGTH
luminance_step == 256 \div HEAT_MAP_LENGTH

\* the value with the channels summed in u8, as without the `as u32` casts
pixel_value_u8(p) ==
  ((((p[1] + p[2] + p[3]) % 256) \div 3) \div luminance_step) % 256

\* the fourth component of pixels_with_value: computed in u32, cast to u8
pixel_value(p) ==
  (((p[1] + p[2] + p[3]) \div 3) \div luminance_step) % 256

\* the palette read from its dense end
heat_map_reversed(i) ==
  IF i + 1 \in DOMAIN HEAT_MAP THEN HEAT_MAP[HEAT_MAP_LENGTH - i] ELSE NoText

\* HEAT_MAP[i]: an index out of bounds panics and gives no text
heat_map_at(i) ==
  IF i + 1 \in DOMAIN HEAT_MAP THEN HEAT_MAP[i + 1] ELSE NoText

\* the text printed for a pixel
glyph_text(p, block_character) ==
  IF block_character THEN BlockGlyph ELSE heat_map_at(pixel_value(p))

(***************************************************************************)
(* EventManager::run: the calls it makes, in order, for the registered     *)
(* entries evs and the values their tests return.                          *)
(***************************************************************************)
TestCall(e) == <<"test", e>>
CallbackCall(e) == <<"callback", e>>

\* an entry whose callback is called whatever its test returned
run_entry_always(e, result) == << TestCall(e), CallbackCall(e) >>

\* one entry of the loop: e.0() and, when it returned true, e.1()
run_entry(e, result) ==
  IF result THEN << TestCall(e), CallbackCall(e) >> ELSE << TestCall(e) >>

RECURSIVE run_from(_, _, _)
run_from(evs, results, i) ==
  IF i > Len(evs) THEN <<>>
  ELSE run_entry(evs[i], results[i]) \o run_from(evs, results, i + 1)

run(evs, results) == run_from(evs, results, 1)

(***************************************************************************)
(* State.                                                                  *)
(***************************************************************************)
VARIABLES
  \* print_stream
  pc,            \* where print_stream is
  args,          \* Args: colored, resize, block_character, loop_animation
  frames,        \* the frames of the GIF, in order
  pulled,        \* history: the bitmaps the loop has taken from the stream
  img,           \* print_img's img
  term,          \* environment: what terminal::size() returns now
  resizes,       \* environment: how often the geometry has changed
  canvas_size,   \* print_stream's canvas_size, captured by the test closure
  print_result,  \* what the latest print_img returned
  ret,           \* what print_stream returned
  log,           \* history: what was done to stdout and the clock, in order
  queries,       \* history: the geometries print_stream's own queries returned
  \* SpecResize
  rq,            \* the call: [w, h, size]
  rr,            \* the outcome of resize_img
  \* SpecPixel
  px,            \* a pixel
  pv,            \* its value and glyph
  \* SpecEM
  events,        \* EventManager.events, by the entries' names
  outcomes,      \* what the tests returned in the latest run
  calls          \* the calls of the latest run, in order

playVars == << pc, args, frames, pulled, img, term, resizes, canvas_size,
               print_result, ret, log, queries >>
resizeVars == << rq, rr >>
pixelVars == << px, pv >>
emVars == << events, outcomes, calls >>
vars == << playVars, resizeVars, pixelVars, emVars >>

(***************************************************************************)
(* What is done to stdout and to the clock: <<kind, text, colour>>.        *)
(***************************************************************************)
FrameEv == <<"frame", NoText, <<>>>>
MoveToEv == <<"MoveTo", NoText, <<>>>>
FlushEv == <<"flush", NoText, <<>>>>
ClearEv == <<"Clear", NoText, <<>>>>
SizeEv == <<"size", NoText, <<>>>>
SleepEv == <<"sleep", NoText, <<>>>>
PrintEv(text) == <<"Print", text, <<>>>>
StyledEv(text, p) == <<"PrintStyledContent", text, p>>

\* crossterm's execute: the command is written and stdout flushed at once
execute(command) == << command, FlushEv >>

\* a queue! that flushes, as execute! in its place would
queue_and_flush(command) == << command, FlushEv >>

\* crossterm's queue!: the command is written, nothing is flushed
queue(command) == << command >>

\* an execute whose flush fails: the command was written
execute_failed(command) == queue(command)

\* the command queued for one pixel
pixel_command(p, a) ==
  IF a.colored
    THEN StyledEv(glyph_text(p, a.block_character), p)
    ELSE PrintEv(glyph_text(p, a.block_character))

\* the pixels of row i (from 0), queued left to right
RECURSIVE row_pixels(_, _, _, _)
row_pixels(im, a, i, j) ==
  IF j >= i * im.w + im.w THEN <<>>
  ELSE queue(pixel_command(im.px[j + 1], a)) \o row_pixels(im, a, i, j + 1)

\* rows i .. n-1 in full: each row's pixels, then its newline
RECURSIVE rows_from(_, _, _, _)
rows_from(im, a, i, n) ==
  IF i >= n THEN <<>>
  ELSE row_pixels(im, a, i, i * im.w) \o queue(PrintEv(Newline))
         \o rows_from(im, a, i + 1, n)

\* HEAT_MAP[p.3 as usize] would index out of bounds for some pixel
index_panics(im, a) ==
  /\ ~a.block_character
  /\ \E i \in 1..Len(im.px) : heat_map_at(pixel_value(im.px[i])) = NoText

(***************************************************************************)
(* print_stream.                                                           *)
(***************************************************************************)
\* the bitmaps of the model
White == Uniform(3, 1, <<255, 255, 255>>)
Black == Uniform(3, 1, <<0, 0, 0>>)
Bitmaps == {White, Black}

\* the geometries of the model: two ordinary ones, one with fewer than
\* three columns and three rows, one with fewer than three rows only
Geometries == { <<80, 24>>, <<100, 30>>, <<2, 2>>, <<9, 2>> }
Terminals == Geometries \cup {NoTerminal}

FrameSequences == UNION { [1..n -> Bitmaps] : n \in 0..MaxFrames }

\* the name of the entry print_stream registers
Watcher == "resize"

\* EventManager::default()
default_events == <<>>

\* EventManager::append
append(evs, e) == Append(evs, e)

\* the next item of the stream print_gif hands over, after n items:
\* frames.cycle() when looping, frames otherwise; <<>> at its end
stream_next(fs, looping, n) ==
  IF looping
    THEN IF Len(fs) = 0 THEN <<>> ELSE << fs[(n % Len(fs)) + 1] >>
    ELSE IF n < Len(fs) THEN << fs[n + 1] >> ELSE <<>>

\* a loop body that goes from print_img straight to the sleep
unwrap_skips_events(result) == IF result = "Ok" THEN "sleep" ELSE "panicked"

\* Result::unwrap on what print_img returned, in the loop body
unwrap_print_img(result) == IF result = "Ok" THEN "events" ELSE "panicked"

\* no call of resize_img yet
NotCalled == [kind |-> "none", err |-> "", target |-> <<>>, img |-> <<>>]

idleResize == rq = <<>> /\ rr = NotCalled
idlePixel == px = <<>> /\ pv = <<>>
idlePlay ==
  /\ pc = "idle"
  /\ args = <<>>
  /\ frames = <<>>
  /\ pulled = <<>>
  /\ img = <<>>
  /\ term = NoTerminal
  /\ resizes = 0
  /\ canvas_size = <<>>
  /\ print_result = "none"
  /\ ret = "none"
  /\ log = <<>>
  /\ queries = <<>>
idleEM == events = <<>> /\ outcomes = <<>> /\ calls = <<>>

Init ==
  /\ pc = "print_stream"
  /\ args \in [colored : BOOLEAN, resize : BOOLEAN,
               block_character : BOOLEAN, loop_animation : BOOLEAN]
  /\ frames \in FrameSequences
  /\ pulled = <<>>
  /\ img = <<>>
  /\ term \in Terminals
  /\ resizes = 0
  /\ canvas_size = <<>>
  /\ print_result = "none"
  /\ ret = "none"
  /\ log = <<>>
  /\ queries = <<>>
  /\ events = default_events
  /\ outcomes = <<>>
  /\ calls = <<>>
  /\ idleResize
  /\ idlePixel

\* lines 191-205: the first geometry query, the EventManager
StreamStart ==
  /\ pc = "print_stream"
  /\ IF term = NoTerminal
       THEN /\ pc' = "returned"
            /\ ret' = IOError
            /\ UNCHANGED << canvas_size, queries, events >>
       ELSE /\ canvas_size' = term
            /\ queries' = << term >>
            /\ events' = append(default_events, Watcher)
            /\ pc' = "next"
            /\ UNCHANGED ret
  /\ UNCHANGED << args, frames, pulled, img, term, resizes, print_result, log,
                  outcomes, calls, resizeVars, pixelVars >>

\* line 207: for_each takes the next frame, or the stream has ended (212)
NextFrame ==
  /\ pc = "next"
  /\ LET item == stream_next(frames, args.loop_animation, Len(pulled))
     IN  IF item = <<>>
           THEN /\ pc' = "returned"
                /\ ret' = "Ok"
                /\ UNCHANGED << pulled, img, log >>
           ELSE /\ Len(pulled) < MaxPulls
                /\ pulled' = Append(pulled, item[1])
                /\ img' = item[1]
                /\ log' = Append(log, FrameEv)
                /\ pc' = "print_img"
                /\ UNCHANGED ret
  /\ UNCHANGED << args, frames, term, resizes, canvas_size, print_result, queries,
                  emVars, resizeVars, pixelVars >>

\* lines 141-144: print_img resizes the bitmap when asked to
PrintImgResize ==
  /\ pc = "print_img"
  /\ IF ~args.resize
       THEN pc' = "cursor" /\ UNCHANGED << img, print_result >>
       ELSE \E r \in resize_img(img, term) :
              IF r.kind = "ok"
                THEN pc' = "cursor" /\ img' = r.img /\ UNCHANGED print_result
              ELSE IF r.kind = "err"
                THEN /\ print_result' = r.err
                     /\ pc' = unwrap_print_img(r.err)
                     /\ UNCHANGED img
              ELSE pc' = "panicked" /\ UNCHANGED << img, print_result >>
  /\ UNCHANGED << args, frames, pulled, term, resizes, canvas_size, ret, log,
                  queries, emVars, resizeVars, pixelVars >>

\* line 145: stdout.execute(cursor::MoveTo(0, 0)).unwrap()
PrintImgMoveTo ==
  /\ pc = "cursor"
  /\ \/ log' = log \o execute(MoveToEv) /\ pc' = "pixels"
     \/ log' = log \o execute_failed(MoveToEv) /\ pc' = "panicked"
  /\ UNCHANGED << args, frames, pulled, img, term, resizes, canvas_size,
                  print_result, ret, queries, emVars, resizeVars, pixelVars >>

\* lines 146-182: every pixel is queued, row by row; a write may fail when a
\* row's newline is written
PrintImgPixels ==
  /\ pc = "pixels"
  /\ IF index_panics(img, args)
       THEN pc' = "panicked" /\ UNCHANGED << log, print_result >>
       ELSE \/ /\ log' = log \o rows_from(img, args, 0, img.h)
               /\ pc' = "flush"
               /\ UNCHANGED print_result
            \/ \E done \in 0..(img.h - 1) :
               /\ log' = log \o rows_from(img, args, 0, done)
                             \o row_pixels(img, args, done, done * img.w)
               /\ print_result' = IOError
               /\ pc' = unwrap_print_img(IOError)
  /\ UNCHANGED << args, frames, pulled, img, term, resizes, canvas_size, ret,
                  queries, emVars, resizeVars, pixelVars >>

\* lines 183-184: stdout.flush()?; Ok(())
PrintImgFlush ==
  /\ pc = "flush"
  /\ \/ /\ log' = log \o << FlushEv >>
        /\ print_result' = "Ok"
        /\ pc' = unwrap_print_img("Ok")
     \/ /\ print_result' = IOError
        /\ pc' = unwrap_print_img(IOError)
        /\ UNCHANGED log
  /\ UNCHANGED << args, frames, pulled, img, term, resizes, canvas_size, ret,
                  queries, emVars, resizeVars, pixelVars >>

\* the test closure (193-201) on what terminal::size() returned
size_changed(memo, size) == memo # size

\* a test closure that never records what it saw
memo_stale(memo, size) == memo

\* canvas_size after the test closure has run
memo_after(memo, size) == IF size_changed(memo, size) THEN size ELSE memo

\* line 209: events.run(), with the closures of lines 193-204
EventsRun ==
  /\ pc = "events"
  /\ IF term = NoTerminal
       THEN /\ pc' = "panicked"
            /\ UNCHANGED << canvas_size, queries, outcomes, calls, log >>
       ELSE LET tested == << size_changed(canvas_size, term) >>
                made == run(events, tested)
            IN  /\ queries' = Append(queries, term)
                /\ canvas_size' = memo_after(canvas_size, term)
                /\ outcomes' = tested
                /\ calls' = made
                /\ IF CallbackCall(Watcher) \in {made[i] : i \in DOMAIN made}
                     THEN \/ /\ log' = log \o << SizeEv >> \o execute(ClearEv)
                             /\ pc' = "sleep"
                          \/ /\ log' = log \o << SizeEv >> \o execute_failed(ClearEv)
                             /\ pc' = "panicked"
                     ELSE /\ log' = log \o << SizeEv >>
                          /\ pc' = "sleep"
  /\ UNCHANGED << args, frames, pulled, img, term, resizes, print_result, ret,
                  events, resizeVars, pixelVars >>

\* a loop body without the sleep
SleepSkipped ==
  /\ pc = "sleep"
  /\ pc' = "next"
  /\ UNCHANGED << args, frames, pulled, img, term, resizes, canvas_size,
                  print_result, ret, log, queries, emVars, resizeVars, pixelVars >>

\* line 210: sleep(animation_delay)
Sleep ==
  /\ pc = "sleep"
  /\ log' = Append(log, SleepEv)
  /\ pc' = "next"
  /\ UNCHANGED << args, frames, pulled, img, term, resizes, canvas_size,
                  print_result, ret, queries, emVars, resizeVars, pixelVars >>

\* the environment: the terminal is resized, attached or detached
TerminalResize ==
  /\ pc \notin {"returned", "panicked"}
  /\ resizes < MaxResizes
  /\ \E t \in Terminals \ {term} : term' = t
  /\ resizes' = resizes + 1
  /\ UNCHANGED << pc, args, frames, pulled, img, canvas_size, print_result, ret,
                  log, queries, emVars, resizeVars, pixelVars >>

Next ==
  \/ StreamStart
  \/ NextFrame
  \/ PrintImgResize
  \/ PrintImgMoveTo
  \/ PrintImgPixels
  \/ PrintImgFlush
  \/ EventsRun
  \/ Sleep

Spec == Init /\ [][Next]_vars

(***************************************************************************)
(* SpecWatch: print_stream on a terminal that changes under it.  The       *)
(* frames alternate between white and black and are rendered plain.        *)
(***************************************************************************)
Alternating(n) == [i \in 1..n |-> IF i % 2 = 1 THEN White ELSE Black]

InitWatch ==
  /\ pc = "print_stream"
  /\ args \in [colored : {FALSE}, resize : BOOLEAN,
               block_character : {FALSE}, loop_animation : BOOLEAN]
  /\ frames \in {Alternating(n) : n \in 0..MaxFrames}
  /\ pulled = <<>>
  /\ img = <<>>
  /\ term \in Terminals
  /\ resizes = 0
  /\ canvas_size = <<>>
  /\ print_result = "none"
  /\ ret = "none"
  /\ log = <<>>
  /\ queries = <<>>
  /\ events = default_events
  /\ outcomes = <<>>
  /\ calls = <<>>
  /\ idleResize
  /\ idlePixel

NextWatch ==
  \/ StreamStart
  \/ NextFrame
  \/ PrintImgResize
  \/ PrintImgMoveTo
  \/ PrintImgPixels
  \/ PrintImgFlush
  \/ EventsRun
  \/ Sleep
  \/ TerminalResize

SpecWatch == InitWatch /\ [][NextWatch]_vars

(***************************************************************************)
(* SpecResize: resize_img on a w x h bitmap under a terminal geometry.     *)
(***************************************************************************)
ResizeCalls ==
  [w : 1..MaxDim, h : 1..MaxDim,
   size : ((0..MaxCols) \X (0..MaxRows)) \cup {NoTerminal}]

InitResize ==
  /\ rq \in ResizeCalls
  /\ rr = NotCalled
  /\ idlePlay
  /\ idleEM
  /\ idlePixel

ResizeCall ==
  /\ rr = NotCalled
  /\ \E r \in resize_img(Uniform(rq.w, rq.h, <<0, 0, 0>>), rq.size) : rr' = r
  /\ UNCHANGED << rq, playVars, emVars, pixelVars >>

NextResize == ResizeCall

SpecResize == InitResize /\ [][NextResize]_vars

(***************************************************************************)
(* SpecPixel: the value and glyph print_img computes for a pixel.          *)
(***************************************************************************)
\* the values of the two channels that do not run over all of u8
ChannelSamples == {0, 1, 127, 128, 254, 255}

Pixels ==
  { <<r, g, b>> : r \in 0..255, g \in ChannelSamples, b \in ChannelSamples }
    \cup { <<v, v, v>> : v \in 0..255 }

InitPixel ==
  /\ px \in Pixels
  /\ pv = <<>>
  /\ idlePlay
  /\ idleEM
  /\ idleResize

PixelValue ==
  /\ pv = <<>>
  /\ pv' = << pixel_value(px), heat_map_at(pixel_value(px)) >>
  /\ UNCHANGED << px, playVars, emVars, resizeVars >>

NextPixel == PixelValue

SpecPixel == InitPixel /\ [][NextPixel]_vars

(***************************************************************************)
(* SpecEM: an EventManager with any entries, whose tests return anything.  *)
(***************************************************************************)
EntryNames == 1..(MaxEvents + 1)

InitEM ==
  /\ events = default_events
  /\ outcomes = <<>>
  /\ calls = <<>>
  /\ idlePlay
  /\ idleResize
  /\ idlePixel

\* EventManager::append of a new pair of closures
EMAppend ==
  /\ Len(events) < MaxEvents
  /\ \E e \in EntryNames \ {events[i] : i \in DOMAIN events} :
       events' = append(events, e)
  /\ UNCHANGED << outcomes, calls, playVars, resizeVars, pixelVars >>

\* EventManager::run, each test returning true or false
EMRun ==
  /\ \E tested \in [1..Len(events) -> BOOLEAN] :
       /\ outcomes' = tested
       /\ calls' = run(events, tested)
  /\ UNCHANGED << events, playVars, resizeVars, pixelVars >>

NextEM == EMAppend \/ EMRun

SpecEM == InitEM /\ [][NextEM]_vars

(***************************************************************************)
(* Properties.                                                             *)
(***************************************************************************)

\* C1 (SpecResize): for every bitmap of width and height >= 1 and every
\* geometry with a canvas (columns >= 3, rows > 3), the dimensions resize_img
\* asks for and the bitmap it returns are at most columns/3 wide and at most
\* rows-3 high.
C1_FitsCanvas ==
  (rr.kind = "ok" /\ rq.size # NoTerminal /\ rq.size[1] >= 3 /\ rq.size[2] > 3) =>
    /\ rr.target[1] <= rq.size[1] \div 3
    /\ rr.target[2] <= rq.size[2] - 3
    /\ rr.img.w <= rq.size[1] \div 3
    /\ rr.img.h <= rq.size[2] - 3

\* C2 (SpecResize): for every geometry with columns < 3 or rows <= 3,
\* resize_img returns the TerminalTooSmall error: it neither panics nor
\* returns a bitmap.
C2_TooSmallIsReturned ==
  (rr.kind # "none" /\ rq.size # NoTerminal /\ (rq.size[1] < 3 \/ rq.size[2] <= 3)) =>
    (rr.kind = "err" /\ rr.err = TERMINAL_TOO_SMALL_ERR)

\* C5 (SpecPixel): for every pixel, the luminance L = (r+g+b)/3 is in
\* [0,255], and the glyph index print_img computes is floor(L/16), is in
\* [0,16) and so finds an entry of HEAT_MAP.
C5_GlyphIndex ==
  pv # <<>> =>
    LET L == (px[1] + px[2] + px[3]) \div 3
    IN  /\ L \in 0..255
        /\ pv[1] \in 0..15
        /\ pv[1] = L \div 16
        /\ pv[2] = HEAT_MAP[pv[1] + 1]

\* a white pixel has been given the densest glyph
C5_Witness == px = <<255, 255, 255>> /\ pv = <<15, Thrice(9608)>>

\* the callbacks called before the i-th test of the latest run
FiredBefore(i) == Cardinality({j \in 1..(i - 1) : outcomes[j]})

\* C6 (SpecEM): one run calls every entry's test exactly once, in
\* registration order, and calls an entry's callback exactly once, right
\* after its test and before the next entry's test, if and only if the test
\* returned true.
C6_RunOrder ==
  LET n == Len(outcomes)
  IN  /\ n <= Len(events)
      /\ Len(calls) = n + FiredBefore(n + 1)
      /\ \A i \in 1..n :
           /\ calls[i + FiredBefore(i)] = TestCall(events[i])
           /\ outcomes[i] => calls[i + FiredBefore(i) + 1] = CallbackCall(events[i])

\* a run over three entries of which the second alone returned true
C6_Witness ==
  /\ Len(outcomes) = 3
  /\ ~outcomes[1] /\ outcomes[2] /\ ~outcomes[3]
  /\ Len(calls) = 4

\* how many entries of the log are of a kind
Count(kind) == Cardinality({i \in DOMAIN log : log[i][1] = kind})

\* the positions in the log of the entries of a kind, ascending
Positions(kind) ==
  IF log = <<>> THEN <<>>
  ELSE SelectSeq([i \in 1..Len(log) |-> i], LAMBDA i : log[i][1] = kind)

\* the log from the latest frame on
CurrentFrame ==
  LET at == Positions("frame")
  IN  IF at = <<>> THEN <<>> ELSE SubSeq(log, at[Len(at)], Len(log))

\* the text of a piece of the log, as the terminal receives it
RECURSIVE TextFrom(_, _)
TextFrom(seg, i) ==
  IF i > Len(seg) THEN NoText
  ELSE seg[i][2] \o TextFrom(seg, i + 1)

\* the latest print_img has returned Ok and nothing has happened since
Rendered == pc = "events"

\* the latest print_img has returned an error
RenderFailed == print_result \notin {"none", "Ok"}

\* C3 (Spec): when rendering a frame fails (TerminalTooSmall, IOError),
\* print_stream stops and returns that error to its caller; it does not
\* terminate abnormally.
C3_RenderErrorReturned ==
  RenderFailed => (pc = "returned" /\ ret = print_result)

\* print_stream was given one frame, not looping, and has returned Ok
SingleFramePlayed ==
  /\ pc = "returned"
  /\ ret = "Ok"
  /\ ~args.loop_animation
  /\ Len(frames) = 1

\* C4 as stated (Spec): given a finite sequence of exactly one bitmap,
\* print_stream renders exactly one frame and returns without any sleep.
C4_SingleFrameNoSleep ==
  SingleFramePlayed => (Count("frame") = 1 /\ Count("sleep") = 0)

\* C4 as amended (Spec): given a finite sequence of exactly one bitmap,
\* print_stream, when it returns Ok, has rendered exactly one frame and
\* slept exactly once, after that frame's render and events.run().
C4_SingleFrameOneSleep ==
  SingleFramePlayed =>
    /\ Count("frame") = 1
    /\ Count("sleep") = 1
    /\ log[Len(log)] = SleepEv
    /\ Positions("flush")[Len(Positions("flush"))] < Positions("sleep")[1]
    /\ Positions("size")[1] < Positions("sleep")[1]

C4_Witness == SingleFramePlayed

\* the pairs of consecutive geometry queries of print_stream that differ
Changes == {k \in 1..(Len(queries) - 1) : queries[k] # queries[k + 1]}

\* C7 (SpecWatch): of the geometries print_stream's queries return (the one at
\* the start, then one per frame), each consecutive pair that differs causes
\* exactly one screen clear and each pair that is equal causes none; the
\* clear of the k-th pair comes after the k-th frame's flush and before the
\* next frame.
C7_ClearPerChange ==
  LET polls  == Positions("size")
      clears == Positions("Clear")
      starts == Positions("frame")
  IN  /\ Len(polls) = Len(queries) - (IF queries = <<>> THEN 0 ELSE 1)
      /\ Len(clears) = Cardinality(Changes)
      /\ \A k \in 1..Len(polls) :
           /\ (k \in Changes) <=>
                (polls[k] < Len(log) /\ log[polls[k] + 1] = ClearEv)
           /\ starts[k] < polls[k]
           /\ log[polls[k] - 1] = FlushEv
           /\ k < Len(starts) => polls[k] + 1 < starts[k + 1]
      /\ \A c \in 1..Len(clears) : log[clears[c] - 1] = SizeEv

\* queries returning (80,24) then (100,30): one clear, between two frames
C7_Witness ==
  /\ Len(queries) >= 2
  /\ queries[1] = <<80, 24>>
  /\ queries[2] = <<100, 30>>
  /\ Count("Clear") = 1
  /\ Count("frame") = 2
  /\ Rendered

\* a plain render of a bitmap as it came: no colour, no block glyph, no resize
PlainRender ==
  /\ Rendered
  /\ ~args.colored
  /\ ~args.block_character
  /\ ~args.resize

\* C8 as stated (Spec): a 3x1 all-white bitmap rendered plain yields
\* "███\n", an all-black one "   \n".
C8_OneGlyphPerRow ==
  PlainRender =>
    /\ img = White => TextFrom(CurrentFrame, 1) = << 9608, 9608, 9608, 10 >>
    /\ img = Black => TextFrom(CurrentFrame, 1) = << 32, 32, 32, 10 >>

\* C8 as amended (Spec): a 3x1 all-white bitmap rendered plain yields three
\* "███" glyphs and a newline, an all-black one three "   " glyphs and a
\* newline.
C8_ThreeGlyphsPerRow ==
  PlainRender =>
    /\ img = White =>
         TextFrom(CurrentFrame, 1) =
           << 9608, 9608, 9608, 9608, 9608, 9608, 9608, 9608, 9608, 10 >>
    /\ img = Black =>
         TextFrom(CurrentFrame, 1) = << 32, 32, 32, 32, 32, 32, 32, 32, 32, 10 >>

C8_Witness == PlainRender /\ img = White /\ Len(pulled) = 1

\* the positions of the flushes in a piece of the log
FlushesOf(seg) == {i \in DOMAIN seg : seg[i] = FlushEv}

FollowsInOrder(i) ==
  LET a == log[i]
      b == log[i + 1]
      pixel(e) == e[1] \in {"Print", "PrintStyledContent"} /\ e # PrintEv(Newline)
  IN  IF a = FrameEv THEN b = MoveToEv
      ELSE IF a = MoveToEv THEN b = FlushEv
      ELSE IF a = SizeEv THEN b \in {ClearEv, SleepEv}
      ELSE IF a = ClearEv THEN b = FlushEv
      ELSE IF a = SleepEv THEN b = FrameEv
      ELSE IF a = PrintEv(Newline) THEN b = FlushEv \/ pixel(b)
      ELSE IF pixel(a) THEN b = PrintEv(Newline) \/ pixel(b)
      ELSE \* a flush
           IF log[i - 1] = MoveToEv THEN pixel(b)
           ELSE IF log[i - 1] = ClearEv THEN b = SleepEv
           ELSE b = SizeEv

\* the k-th bitmap of the stream print_gif hands over
StreamItem(k) ==
  IF args.loop_animation THEN frames[((k - 1) % Len(frames)) + 1] ELSE frames[k]

\* C10 (SpecWatch): print_stream takes the frames in order and for each one
\* renders it completely (cursor reset to flush), then runs the EventManager
\* once, then sleeps: the geometry is polled once per frame, and a clear
\* comes only after the frame's flush and before the next frame's cursor
\* reset.
C10_FrameSteps ==
  /\ log # <<>> => log[1] = FrameEv
  /\ \A i \in 1..(Len(log) - 1) : FollowsInOrder(i)
  /\ \A k \in 1..Len(pulled) : pulled[k] = StreamItem(k)
  /\ Count("frame") = Len(pulled)
  /\ Count("size") = Len(queries) - (IF queries = <<>> THEN 0 ELSE 1)
  /\ Count("size") <= Count("frame")
  /\ Count("sleep") <= Count("size")
  /\ pc \in {"next", "returned"} => Count("sleep") = Count("frame")

\* the geometry changed while the second frame was drawn; the clear and the
\* sleep came after its flush
C10_Witness ==
  /\ pc = "next"
  /\ Len(pulled) = 2
  /\ queries[2] = queries[1]
  /\ queries[3] # queries[2]
  /\ log[Len(log)] = SleepEv
  /\ log[Len(log) - 2] = ClearEv

====
